---- MODULE Spec2Model ----
(***************************************************************************)
(* A model of src/index.js: the Express payment backend (Stripe payment    *)
(* intents, the PayPal confirmation route, the Stripe webhook, the CORS    *)
(* gate and the order-email notifier sendOrderEmails).                     *)
(*                                                                         *)
(* Every HTTP request is one element of reqs.  A handler runs from its     *)
(* arrival to its first await in one step; it is resumed by the step that  *)
(* settles what it awaits (the Stripe call, or the Promise.all of the two  *)
(* sendMail promises).  Requests interleave freely at their awaits.        *)
(***************************************************************************)
EXTENDS Integers, Sequences, FiniteSets, TLC

\* How many requests one behaviour receives.
MaxRequests == 2

(***************************************************************************)
(* JavaScript values.                                                      *)
(***************************************************************************)
\* undefined / null / a missing property, for string-valued fields.
Undefined == "undefined"

\* Truthiness of a string-or-undefined value.
Truthy(s) == s # Undefined /\ s # ""

\* a || b
Or(a, b) == IF Truthy(a) THEN a ELSE b

\* Request-body values that may be a number, a string or missing.  Numbers
\* are kept in hundredths (n = 1999 is 19.99).
JsUndef == [t |-> "undefined", n |-> 0, s |-> ""]
JsNaN == [t |-> "nan", n |-> 0, s |-> ""]
Num(h) == [t |-> "num", n |-> h, s |-> ""]
Str(x) == [t |-> "str", n |-> 0, s |-> x]

\* !!v
TruthyVal(v) ==
    CASE v.t = "num" -> v.n # 0
      [] v.t = "str" -> v.s # ""
      [] OTHER -> FALSE

\* Number(v), for the strings the model sends.
ToNumber(v) ==
    CASE v.t = "num" -> v
      [] v.t = "str" /\ v.s = "" -> Num(0)
      [] v.t = "str" /\ v.s = "25" -> Num(2500)
      [] v.t = "str" /\ v.s = "19.99" -> Num(1999)
      [] OTHER -> JsNaN

\* v < k, k a whole number: false when v converts to NaN.
LessThan(v, k) == ToNumber(v).t = "num" /\ ToNumber(v).n < k * 100

\* Math.round(v): the nearest whole number, halves up; NaN stays NaN.
MathRound(v) ==
    IF ToNumber(v).t = "num"
    THEN Num(((ToNumber(v).n + 50) \div 100) * 100)
    ELSE JsNaN

Digits == <<"0", "1", "2", "3", "4", "5", "6", "7", "8", "9">>

RECURSIVE NatToStr(_)
NatToStr(n) ==
    IF n < 10 THEN Digits[n + 1]
    ELSE NatToStr(n \div 10) \o Digits[(n % 10) + 1]

Abs(h) == IF h < 0 THEN 0 - h ELSE h

\* (h / 100).toFixed(2) of a number held in hundredths.
toFixed2(h) ==
    (IF h < 0 THEN "-" ELSE "") \o NatToStr(Abs(h) \div 100) \o "."
        \o Digits[((Abs(h) % 100) \div 10) + 1] \o Digits[(Abs(h) % 10) + 1]

\* customer?.email, customer?.name: customer may be missing from the body.
NoCustomer == [present |-> FALSE, email |-> Undefined, name |-> Undefined]
OptEmail(customer) == IF customer.present THEN customer.email ELSE Undefined
OptName(customer) == IF customer.present THEN customer.name ELSE Undefined

(***************************************************************************)
(* Process state.                                                          *)
(***************************************************************************)
VARIABLES
    webhookSecret,     \* process.env.STRIPE_WEBHOOK_SECRET is set
    emailTransporter,  \* the nodemailer transport was created at startup
    development,       \* process.env.NODE_ENV === 'development'
    reqs               \* the requests received so far, in flight or answered

vars == <<webhookSecret, emailTransporter, development, reqs>>

NoResp == [status |-> 0]
NoStripe == [kind |-> "none"]

\* A request as it enters its route handler, the CORS middleware passed.
NewReq(route, input) ==
    [route |-> route, input |-> input, pc |-> "start", cors |-> "next",
     stripeCalls |-> 0, stripeArgs |-> JsUndef, stripe |-> NoStripe,
     notifier |-> "notcalled", sendMailCalls |-> <<>>,
     business |-> "idle", customer |-> "idle",
     resp |-> NoResp]

\* res.status(s).json(body) / res.json(body): the handler is finished.
Reply(r, s, body) == [r EXCEPT !.pc = "done", !.resp = [status |-> s, body |-> body]]

Init ==
    /\ webhookSecret \in BOOLEAN
    /\ emailTransporter \in BOOLEAN
    /\ development \in BOOLEAN
    /\ reqs = <<>>

(***************************************************************************)
(* The email notifier, sendOrderEmails.                                    *)
(***************************************************************************)
\* process.env.BUSINESS_EMAIL, or its default.
BUSINESS_EMAIL == "anaroyes7@gmail.com"

\* customerEmail: the Stripe branch reads the intent, the PayPal branch the
\* customer argument and the fabricated record.
ResolveCustomerEmail(paymentData, customer) ==
    IF paymentData.object = "payment_intent"
    THEN Or(paymentData.receipt_email, paymentData.metadata.customer_email)
    ELSE Or(OptEmail(customer), paymentData.payer.email_address)

\* The fields interpolated into the two templates.
OrderSummary(paymentData, customer, totalAmount) ==
    IF paymentData.object = "payment_intent"
    THEN [customerEmail |-> ResolveCustomerEmail(paymentData, customer),
          customerName |-> Or(paymentData.metadata.customer_name, "Customer"),
          amount |-> toFixed2(paymentData.amount),
          paymentId |-> paymentData.id,
          paymentMethod |-> "Credit Card (Stripe)"]
    ELSE [customerEmail |-> ResolveCustomerEmail(paymentData, customer),
          customerName |-> Or(OptName(customer), "Customer"),
          amount |-> IF totalAmount.t = "num" THEN toFixed2(totalAmount.n)
                     ELSE paymentData.amount.value,
          paymentId |-> paymentData.id,
          paymentMethod |-> "PayPal"]

\* businessEmailOptions and customerEmailOptions.
businessEmailOptions(o) ==
    [kind |-> "business", to |-> BUSINESS_EMAIL,
     subject |-> "New Order - Payment " \o o.paymentId, html |-> o]

customerEmailOptions(o) ==
    [kind |-> "customer", to |-> o.customerEmail,
     subject |-> "Order Confirmation - Payment " \o o.paymentId, html |-> o]

\* sendOrderEmails up to its await: without a customer email it logs and
\* returns; otherwise both sendMail calls are made, in the array literal,
\* before Promise.all is awaited.
sendOrderEmails(r, paymentData, customer, totalAmount) ==
    IF ~Truthy(ResolveCustomerEmail(paymentData, customer))
    THEN [r EXCEPT !.notifier = "returned"]
    ELSE [r EXCEPT !.notifier = "running",
                   !.sendMailCalls =
                       <<businessEmailOptions(OrderSummary(paymentData, customer, totalAmount)),
                         customerEmailOptions(OrderSummary(paymentData, customer, totalAmount))>>,
                   !.business = "pending",
                   !.customer = "pending",
                   !.pc = "awaitEmails"]

\* A Promise.all that settles as soon as one send succeeds.
PromiseAll_firstSettled(business, customer) ==
    IF "failed" \in {business, customer} THEN "rejected"
    ELSE IF "ok" \in {business, customer} THEN "fulfilled"
    ELSE "pending"

\* Promise.all of the two sendMail promises: rejected as soon as one is,
\* fulfilled when both are.
PromiseAll(business, customer) ==
    IF "failed" \in {business, customer} THEN "rejected"
    ELSE IF business = "ok" /\ customer = "ok" THEN "fulfilled"
    ELSE "pending"

\* A notifier without its catch: a rejected send reaches the caller.
NotifierOutcome_rethrows(all) ==
    CASE all = "fulfilled" -> "returned"
      [] all = "rejected" -> "threw"
      [] OTHER -> "running"

\* How the awaited Promise.all ends sendOrderEmails: the try logs success,
\* the catch logs the failure, and either way the function returns.
NotifierOutcome(all) ==
    CASE all = "fulfilled" -> "returned"
      [] all = "rejected" -> "returned"
      [] OTHER -> "running"

\* The record /api/process-paypal-payment fabricates (create_time, the
\* wall-clock time, is left out).
paypalPayment(input) ==
    [object |-> Undefined,
     id |-> input.orderID,
     status |-> "COMPLETED",
     amount |-> [currency_code |-> "USD", value |-> toFixed2(input.amount.n)],
     payer |-> [payer_id |-> input.payerID,
                email_address |-> OptEmail(input.customer)],
     payment_method |-> "PayPal"]

\* The rest of a handler once `await sendOrderEmails(...)` is over: the
\* success reply, or the handler's own catch had the notifier thrown.
Resume(r) ==
    CASE r.route = "webhook" ->
            IF r.notifier = "threw"
            THEN Reply(r, 500, [error |-> "Failed to process webhook event"])
            ELSE Reply(r, 200, [received |-> TRUE])
      [] r.route = "confirm" ->
            IF r.notifier = "threw"
            THEN Reply(r, 500, [success |-> FALSE, error |-> "Failed to confirm payment"])
            ELSE Reply(r, 200, [success |-> TRUE, payment_intent |-> r.stripe.intent])
      [] r.route = "paypal" ->
            IF r.notifier = "threw"
            THEN Reply(r, 500, [success |-> FALSE, error |-> "Failed to process PayPal payment"])
            ELSE Reply(r, 200, [success |-> TRUE, payment |-> paypalPayment(r.input)])

\* `await sendOrderEmails(...)` in a handler: suspended while the notifier
\* awaits its sends, resumed at once when it has returned.
AwaitNotifier(r) == IF r.notifier = "running" THEN r ELSE Resume(r)

\* A sendMail promise settles.  When that settles the Promise.all the
\* notifier awaits, the notifier and its caller run on to the response.
AfterSend(r) ==
    IF r.pc = "awaitEmails"
    THEN AwaitNotifier([r EXCEPT !.notifier =
                            NotifierOutcome(PromiseAll(r.business, r.customer))])
    ELSE r

SendSettles ==
    /\ \E i \in DOMAIN reqs, which \in {"business", "customer"},
          outcome \in {"ok", "failed"} :
          /\ reqs[i][which] = "pending"
          /\ reqs' = [reqs EXCEPT ![i] = AfterSend([@ EXCEPT ![which] = outcome])]
    /\ UNCHANGED <<webhookSecret, emailTransporter, development>>

(***************************************************************************)
(* POST /api/webhook.                                                      *)
(***************************************************************************)
GoodSig == "t=1,v1=good"
BadSig == "t=1,v1=bad"

\* stripe.webhooks.constructEvent: whether the stripe-signature header
\* verifies the raw body under the secret.
Verifies(sig) == sig = GoodSig

\* The message of the error constructEvent throws.
VerifyError(sig) ==
    IF sig = Undefined THEN "No stripe-signature header value was provided."
    ELSE "No signatures found matching the expected signature for payload."

\* A dispatch that also notifies for failed payments.
ShouldNotify_anyIntent(event) ==
    /\ event.type \in {"payment_intent.succeeded", "payment_intent.payment_failed"}
    /\ emailTransporter

\* A dispatch that remembers the events it has already notified.
ShouldNotify_dedup(event) ==
    /\ event.type = "payment_intent.succeeded"
    /\ emailTransporter
    /\ ~\E k \in DOMAIN reqs : reqs[k].route = "webhook" /\ reqs[k].input.event = event

\* The switch on event.type and the transporter test of its first case:
\* whether the dispatch calls sendOrderEmails.
ShouldNotify(event) ==
    /\ event.type = "payment_intent.succeeded"
    /\ emailTransporter

\* A dispatch that acknowledges without awaiting the notifier.
Dispatch_noAwait(r, event) ==
    IF ShouldNotify(event)
    THEN Reply(sendOrderEmails(r, event.data.object, NoCustomer, JsUndef),
               200, [received |-> TRUE])
    ELSE Reply(r, 200, [received |-> TRUE])

\* The dispatch of a verified event and the acknowledgement after it.
Dispatch(r, event) ==
    IF ShouldNotify(event)
    THEN AwaitNotifier(sendOrderEmails(r, event.data.object, NoCustomer, JsUndef))
    ELSE Reply(r, 200, [received |-> TRUE])

\* A handler that verifies nothing.
webhook_noVerify(r) ==
    IF ~webhookSecret
    THEN Reply(r, 500, [error |-> "Webhook secret not configured"])
    ELSE Dispatch(r, r.input.event)

webhook(r) ==
    IF ~webhookSecret
    THEN Reply(r, 500, [error |-> "Webhook secret not configured"])
    ELSE IF ~Verifies(r.input.sig)
    THEN Reply(r, 400, [text |-> "Webhook Error: " \o VerifyError(r.input.sig)])
    ELSE Dispatch(r, r.input.event)

\* Payment intents as Stripe delivers them.
Intent(status, receipt, metaEmail) ==
    [object |-> "payment_intent", id |-> "pi_1", status |-> status,
     amount |-> 1999, receipt_email |-> receipt,
     metadata |-> [customer_email |-> metaEmail, customer_name |-> ""]]

Event(type, object) == [type |-> type, data |-> [object |-> object]]

WebhookEvents ==
    { Event("payment_intent.succeeded", Intent("succeeded", "a@b.com", "")),
      Event("payment_intent.succeeded", Intent("succeeded", Undefined, "c@d.com")),
      Event("payment_intent.succeeded", Intent("succeeded", Undefined, "")),
      Event("payment_intent.payment_failed",
            Intent("requires_payment_method", "a@b.com", "")),
      Event("charge.succeeded", [object |-> "charge", id |-> "ch_1"]) }

WebhookInputs ==
    [sig : {Undefined, BadSig, GoodSig}, event : WebhookEvents]

WebhookArrives(inputs) ==
    /\ Len(reqs) < MaxRequests
    /\ \E input \in inputs :
          reqs' = Append(reqs, webhook(NewReq("webhook", input)))
    /\ UNCHANGED <<webhookSecret, emailTransporter, development>>

NextWebhook == WebhookArrives(WebhookInputs) \/ SendSettles

SpecWebhook == Init /\ [][NextWebhook]_vars

(***************************************************************************)
(* POST /api/create-payment-intent.                                        *)
(***************************************************************************)
\* The smallest amount accepted, in minor units.
MinAmount == 50

\* A validation that only asks for an amount.
InvalidAmount_noMinimum(amount) == ~TruthyVal(amount)

\* !amount || amount < 50
InvalidAmount(amount) == ~TruthyVal(amount) \/ LessThan(amount, MinAmount)

\* The argument of stripe.paymentIntents.create.
CreateArgs(input) ==
    [amount |-> MathRound(input.amount),
     currency |-> IF input.currency = Undefined THEN "usd" ELSE input.currency,
     metadata |-> [customer_email |-> Or(OptEmail(input.customer), ""),
                   customer_name |-> Or(OptName(input.customer), "")],
     receipt_email |-> OptEmail(input.customer)]

createPaymentIntent(r) ==
    IF InvalidAmount(r.input.amount)
    THEN Reply(r, 400, [error |-> "Invalid amount",
                        details |-> "Amount must be at least $0.50"])
    ELSE [r EXCEPT !.pc = "awaitStripe",
                   !.stripeCalls = @ + 1,
                   !.stripeArgs = CreateArgs(r.input)]

\* The handler after stripe.paymentIntents.create has settled.
createPaymentIntentResume(r) ==
    IF r.stripe.kind = "intent"
    THEN Reply(r, 200, [success |-> TRUE,
                        client_secret |-> r.stripe.intent.client_secret,
                        payment_intent_id |-> r.stripe.intent.id])
    ELSE Reply(r, 500, [success |-> FALSE,
                        error |-> Or(r.stripe.message, "Failed to create payment intent"),
                        code |-> Or(r.stripe.type, "unknown_error")])

Ann == [present |-> TRUE, email |-> "a@b.com", name |-> "Ann"]

CreateInputs ==
    [amount : {JsUndef, Num(0), Num(2500), Num(4950), Num(5000), Num(5040),
               Str("25"), Str("abc")},
     currency : {Undefined}, customer : {NoCustomer}]
    \cup {[amount |-> Num(5000), currency |-> "eur", customer |-> Ann]}

CreateArrives(inputs) ==
    /\ Len(reqs) < MaxRequests
    /\ \E input \in inputs :
          reqs' = Append(reqs, createPaymentIntent(NewReq("create", input)))
    /\ UNCHANGED <<webhookSecret, emailTransporter, development>>

(***************************************************************************)
(* POST /api/confirm-payment.                                              *)
(***************************************************************************)
confirmPayment(r) ==
    IF ~Truthy(r.input.payment_intent_id)
    THEN Reply(r, 400, [success |-> FALSE, error |-> "Payment intent ID is required"])
    ELSE [r EXCEPT !.pc = "awaitStripe",
                   !.stripeCalls = @ + 1,
                   !.stripeArgs = [id |-> r.input.payment_intent_id]]

\* A test that also takes an intent still processing as paid.
IsSucceeded_orProcessing(status) == status \in {"succeeded", "processing"}

\* paymentIntent.status === 'succeeded'
IsSucceeded(status) == status = "succeeded"

\* The handler after stripe.paymentIntents.retrieve has settled.
confirmPaymentResume(r) ==
    IF r.stripe.kind = "error"
    THEN Reply(r, 500, [success |-> FALSE,
                        error |-> Or(r.stripe.message, "Failed to confirm payment")])
    ELSE IF IsSucceeded(r.stripe.intent.status)
    THEN IF emailTransporter
         THEN AwaitNotifier(sendOrderEmails(r, r.stripe.intent, NoCustomer, JsUndef))
         ELSE Resume(r)
    ELSE Reply(r, 200, [success |-> FALSE,
                        status |-> r.stripe.intent.status,
                        message |-> "Payment status is " \o r.stripe.intent.status])

ConfirmInputs == [payment_intent_id : {Undefined, "pi_1"}]

ConfirmArrives(inputs) ==
    /\ Len(reqs) < MaxRequests
    /\ \E input \in inputs :
          reqs' = Append(reqs, confirmPayment(NewReq("confirm", input)))
    /\ UNCHANGED <<webhookSecret, emailTransporter, development>>

(***************************************************************************)
(* The Stripe API, as the two handlers see it.                             *)
(***************************************************************************)
StripeError(message, type) == [kind |-> "error", message |-> message, type |-> type]

StripeErrors ==
    { StripeError("No such payment_intent", "StripeInvalidRequestError"),
      StripeError("", Undefined) }

\* What stripe.paymentIntents.create can settle to.
CreateOutcomes ==
    { [kind |-> "intent",
       intent |-> [id |-> "pi_1", client_secret |-> "pi_1_secret_x"]] }
    \cup StripeErrors

\* What stripe.paymentIntents.retrieve can settle to.
RetrieveOutcomes(statuses) ==
    { [kind |-> "intent", intent |-> Intent(st, em, "")] :
          st \in statuses, em \in {Undefined, "a@b.com"} }
    \cup StripeErrors

IntentStatuses == {"succeeded", "processing", "requires_payment_method"}

StripeReturns(statuses) ==
    /\ \E i \in DOMAIN reqs :
          /\ reqs[i].pc = "awaitStripe"
          /\ \E outcome \in IF reqs[i].route = "create" THEN CreateOutcomes
                            ELSE RetrieveOutcomes(statuses) :
                reqs' = [reqs EXCEPT ![i] =
                            IF @.route = "create"
                            THEN createPaymentIntentResume([@ EXCEPT !.stripe = outcome])
                            ELSE confirmPaymentResume([@ EXCEPT !.stripe = outcome])]
    /\ UNCHANGED <<webhookSecret, emailTransporter, development>>

(***************************************************************************)
(* POST /api/process-paypal-payment.                                       *)
(***************************************************************************)
\* A validation that forgets the payer.
MissingPaymentInfo_noPayer(input) ==
    ~Truthy(input.orderID) \/ ~TruthyVal(input.amount)

\* !orderID || !payerID || !amount
MissingPaymentInfo(input) ==
    ~Truthy(input.orderID) \/ ~Truthy(input.payerID) \/ ~TruthyVal(input.amount)

processPaypalPayment(r) ==
    IF MissingPaymentInfo(r.input)
    THEN Reply(r, 400, [success |-> FALSE,
                        error |-> "Missing required payment information"])
    ELSE IF r.input.amount.t # "num"
    THEN \* amount.toFixed(2) throws a TypeError, which the handler catches
         Reply(r, 500, [success |-> FALSE,
                        error |-> "amount.toFixed is not a function"])
    ELSE IF emailTransporter
    THEN AwaitNotifier(sendOrderEmails(r, paypalPayment(r.input),
                                       r.input.customer, r.input.amount))
    ELSE Resume(r)

PaypalInputs ==
    [orderID : {Undefined, "O1"}, payerID : {Undefined, "P1"},
     amount : {JsUndef, Num(0), Num(1999), Str("19.99")},
     customer : {NoCustomer, Ann}]

PaypalArrives(inputs) ==
    /\ Len(reqs) < MaxRequests
    /\ \E input \in inputs :
          reqs' = Append(reqs, processPaypalPayment(NewReq("paypal", input)))
    /\ UNCHANGED <<webhookSecret, emailTransporter, development>>

(***************************************************************************)
(* The middleware chain in front of the routes: cors({origin, credentials}),*)
(* app.options('*', cors()), the routes, the /api/* 404 handler and the    *)
(* error-handling middleware, in the order they are registered.            *)
(***************************************************************************)
allowedOrigins ==
    { "http://localhost:5173",
      "http://localhost:3000",
      "https://pakbh.com",
      "https://www.pakbh.com",
      "https://delicate-banoffee-384c86.netlify.app",
      "https://blenhairs.netlify.app",
      "https://serveforpakbh.onrender.com" }

CorsMessage ==
    "The CORS policy for this site does not allow access from the specified Origin."

\* The origin callback: TRUE is callback(null, true), FALSE is
\* callback(new Error(msg), false).
OriginAllowed(origin) ==
    IF ~Truthy(origin) THEN TRUE
    ELSE IF origin \notin allowedOrigins THEN FALSE
    ELSE TRUE

\* The error-handling middleware.
ErrorMiddleware(r, message) ==
    Reply(r, 500, [success |-> FALSE, error |-> "Internal server error",
                   message |-> IF development THEN message
                               ELSE "Something went wrong"])

\* GET /api/health.
Health(r) ==
    Reply(r, 200, [status |-> "OK", stripe_key_configured |-> TRUE,
                   email_configured |-> emailTransporter,
                   environment |-> IF development THEN "development" ELSE "production"])

\* What follows the CORS middleware for a request that is no preflight.
Routes(r) ==
    IF r.input.method = "GET" /\ r.input.path = "/api/health" THEN Health(r)
    ELSE IF r.input.path \in {"/api/health", "/api/unknown"}
    THEN Reply(r, 404, [success |-> FALSE, error |-> "API endpoint not found"])
    ELSE Reply(r, 404, [text |-> "Cannot " \o r.input.method \o " " \o r.input.path])

\* app.use(cors({origin, credentials: true})) and all that is registered
\* after it.  The middleware runs for every method: a failed origin goes to
\* next(err); an OPTIONS request that passes is answered 204 by the
\* middleware itself, so app.options('*', cors()) never sees a request.
Pipeline(r) ==
    IF ~OriginAllowed(r.input.origin)
    THEN ErrorMiddleware([r EXCEPT !.cors = "error"], CorsMessage)
    ELSE IF r.input.method = "OPTIONS"
    THEN Reply([r EXCEPT !.cors = "preflight"], 204,
               [allowOrigin |-> r.input.origin, allowCredentials |-> TRUE])
    ELSE Routes(r)

PipelineInputs ==
    [method : {"OPTIONS", "GET", "POST"},
     origin : {Undefined, "https://pakbh.com", "http://localhost:5173",
               "http://pakbh.com", "https://evil.example"},
     path : {"/api/health", "/api/unknown", "/"}]

RequestArrives(inputs) ==
    /\ Len(reqs) < MaxRequests
    /\ \E input \in inputs :
          reqs' = Append(reqs, Pipeline(NewReq("pipeline", input)))
    /\ UNCHANGED <<webhookSecret, emailTransporter, development>>

(***************************************************************************)
(* Specifications: one per route, and one of the three routes that notify. *)
(***************************************************************************)
NextCreate == CreateArrives(CreateInputs) \/ StripeReturns(IntentStatuses)

SpecCreate == Init /\ [][NextCreate]_vars

NextConfirm ==
    \/ ConfirmArrives(ConfirmInputs)
    \/ StripeReturns(IntentStatuses)
    \/ SendSettles

SpecConfirm == Init /\ [][NextConfirm]_vars

NextPaypal == PaypalArrives(PaypalInputs) \/ SendSettles

SpecPaypal == Init /\ [][NextPaypal]_vars

\* The requests that get as far as the notifier's caller.
NotifyWebhookInputs ==
    {in \in WebhookInputs : Verifies(in.sig) /\ in.event.type = "payment_intent.succeeded"}

NotifyPaypalInputs ==
    {in \in PaypalInputs : ~MissingPaymentInfo(in) /\ in.amount.t = "num"}

NotifyConfirmInputs == {in \in ConfirmInputs : Truthy(in.payment_intent_id)}

NextNotify ==
    \/ WebhookArrives(NotifyWebhookInputs)
    \/ PaypalArrives(NotifyPaypalInputs)
    \/ ConfirmArrives(NotifyConfirmInputs)
    \/ StripeReturns({"succeeded"})
    \/ SendSettles

SpecNotify == Init /\ [][NextNotify]_vars

NextCors == RequestArrives(PipelineInputs)

SpecCors == Init /\ [][NextCors]_vars

\* The whole server.
Next ==
    \/ RequestArrives(PipelineInputs)
    \/ CreateArrives(CreateInputs)
    \/ ConfirmArrives(ConfirmInputs)
    \/ PaypalArrives(PaypalInputs)
    \/ WebhookArrives(WebhookInputs)
    \/ StripeReturns(IntentStatuses)
    \/ SendSettles

Spec == Init /\ [][Next]_vars

(***************************************************************************)
(* Properties.                                                             *)
(***************************************************************************)
OfRoute(route) == {i \in DOMAIN reqs : reqs[i].route = route}

\* The sendMail calls of one kind a request has made.
Attempts(r, kind) ==
    Cardinality({k \in DOMAIN r.sendMailCalls : r.sendMailCalls[k].kind = kind})

Answered(r) == r.resp # NoResp

Finished(send) == send \in {"ok", "failed"}

\* The customer email of the intent a webhook event carries.
EventEmail(event) ==
    Or(event.data.object.receipt_email, event.data.object.metadata.customer_email)

\* C1, as stated: a webhook request whose signature does not verify is
\* answered 400 and makes no sendMail call, whatever the event type and
\* whatever the configuration.
C1_InvalidSignatureAlways400 ==
    \A i \in OfRoute("webhook") :
        ~Verifies(reqs[i].input.sig) =>
            /\ reqs[i].resp.status = 400
            /\ Len(reqs[i].sendMailCalls) = 0

\* C1, amended: a webhook request whose signature does not verify never
\* makes a sendMail call or calls the notifier; it is answered 400 when the
\* webhook secret is configured and 500 when it is not.
C1_InvalidSignatureRejected ==
    \A i \in OfRoute("webhook") :
        ~Verifies(reqs[i].input.sig) =>
            /\ reqs[i].pc = "done"
            /\ reqs[i].resp.status = IF webhookSecret THEN 400 ELSE 500
            /\ Len(reqs[i].sendMailCalls) = 0
            /\ reqs[i].notifier = "notcalled"
            /\ reqs[i].business = "idle" /\ reqs[i].customer = "idle"

C1_Witness ==
    /\ webhookSecret /\ emailTransporter
    /\ \E i \in OfRoute("webhook") :
          /\ reqs[i].input.sig = BadSig
          /\ reqs[i].input.event.type = "payment_intent.succeeded"
          /\ Truthy(EventEmail(reqs[i].input.event))
          /\ reqs[i].resp.status = 400

\* C2, as stated: a verified payment_intent.succeeded event with a
\* resolvable customer email makes exactly one business and one customer
\* sendMail call; a verified payment_intent.payment_failed event makes none.
C2_SucceededAlwaysSendsBoth ==
    \A i \in OfRoute("webhook") :
        (webhookSecret /\ Verifies(reqs[i].input.sig)) =>
            /\ (reqs[i].input.event.type = "payment_intent.succeeded"
                /\ Truthy(EventEmail(reqs[i].input.event)))
               => (Attempts(reqs[i], "business") = 1 /\ Attempts(reqs[i], "customer") = 1)
            /\ reqs[i].input.event.type = "payment_intent.payment_failed"
               => Len(reqs[i].sendMailCalls) = 0

\* C2, amended: the two sendMail calls are made when, in addition, the
\* email transporter is configured; without it the event makes none; a
\* verified payment_intent.payment_failed event makes none.
C2_SucceededSendsBoth ==
    \A i \in OfRoute("webhook") :
        (webhookSecret /\ Verifies(reqs[i].input.sig)) =>
            /\ (reqs[i].input.event.type = "payment_intent.succeeded"
                /\ Truthy(EventEmail(reqs[i].input.event))
                /\ emailTransporter)
               => (Attempts(reqs[i], "business") = 1 /\ Attempts(reqs[i], "customer") = 1)
            /\ ~emailTransporter => Len(reqs[i].sendMailCalls) = 0
            /\ reqs[i].input.event.type = "payment_intent.payment_failed"
               => Len(reqs[i].sendMailCalls) = 0

C2_Witness ==
    /\ webhookSecret /\ emailTransporter
    /\ \E i \in OfRoute("webhook") :
          /\ Verifies(reqs[i].input.sig)
          /\ reqs[i].input.event.type = "payment_intent.succeeded"
          /\ reqs[i].input.event.data.object.receipt_email = Undefined
          /\ Attempts(reqs[i], "business") = 1
          /\ Attempts(reqs[i], "customer") = 1
    /\ \E j \in OfRoute("webhook") :
          /\ Verifies(reqs[j].input.sig)
          /\ reqs[j].input.event.type = "payment_intent.payment_failed"
          /\ reqs[j].resp.status = 200

\* C6: two deliveries of the same webhook request make the same sendMail
\* calls and, once answered, have the same response: nothing an earlier
\* request left behind changes a later one.
C6_RedeliveryIndependent ==
    \A i \in OfRoute("webhook"), j \in OfRoute("webhook") :
        reqs[i].input = reqs[j].input =>
            /\ reqs[i].sendMailCalls = reqs[j].sendMailCalls
            /\ (reqs[i].pc = "done" /\ reqs[j].pc = "done")
               => reqs[i].resp = reqs[j].resp

C6_Witness ==
    \E i \in OfRoute("webhook"), j \in OfRoute("webhook") :
        /\ i < j
        /\ reqs[i].input = reqs[j].input
        /\ webhookSecret /\ Verifies(reqs[i].input.sig)
        /\ reqs[i].input.event.type = "payment_intent.succeeded"
        /\ Len(reqs[i].sendMailCalls) = 2 /\ Len(reqs[j].sendMailCalls) = 2
        /\ reqs[i].pc = "done" /\ reqs[j].pc = "done"

\* C8: a verified webhook event whose dispatch is over is answered
\* 200 {received: true} whatever its type, and no verified event is answered
\* while the notifier its dispatch called is still running.
C8_AcknowledgedAfterDispatch ==
    \A i \in OfRoute("webhook") :
        (webhookSecret /\ Verifies(reqs[i].input.sig)) =>
            /\ reqs[i].pc = "done"
               => reqs[i].resp = [status |-> 200, body |-> [received |-> TRUE]]
            /\ Answered(reqs[i]) => reqs[i].notifier \in {"notcalled", "returned"}
            /\ (Answered(reqs[i]) /\ emailTransporter
                /\ reqs[i].input.event.type = "payment_intent.succeeded")
               => reqs[i].notifier = "returned"

C8_Witness ==
    /\ \E i \in OfRoute("webhook") :
          /\ webhookSecret /\ Verifies(reqs[i].input.sig)
          /\ reqs[i].input.event.type = "charge.succeeded"
          /\ reqs[i].resp.status = 200
    /\ \E j \in OfRoute("webhook") :
          /\ reqs[j].notifier = "returned"
          /\ reqs[j].business = "ok" /\ reqs[j].customer = "ok"
          /\ reqs[j].resp.status = 200

\* C3, as stated: a PayPal request missing orderID, payerID or amount is
\* answered 400 "Missing required payment information" with no sendMail
\* call; every other request is answered 200, success, status COMPLETED and
\* the caller's orderID.
C3_PresentAlwaysCompleted ==
    \A i \in OfRoute("paypal") :
        reqs[i].pc = "done" =>
            IF \/ reqs[i].input.orderID = Undefined
               \/ reqs[i].input.payerID = Undefined
               \/ reqs[i].input.amount = JsUndef
            THEN /\ reqs[i].resp.status = 400
                 /\ reqs[i].resp.body.error = "Missing required payment information"
                 /\ Len(reqs[i].sendMailCalls) = 0
            ELSE /\ reqs[i].resp.status = 200
                 /\ reqs[i].resp.body.success
                 /\ reqs[i].resp.body.payment.status = "COMPLETED"
                 /\ reqs[i].resp.body.payment.id = reqs[i].input.orderID

\* C3, amended: a PayPal request in which orderID, payerID or amount is
\* missing or falsy (an empty string, 0) is answered 400 "Missing required
\* payment information", with no record and no sendMail call; one in which
\* all three are truthy and amount is a number is answered 200, success,
\* status COMPLETED and the caller's orderID; one in which all three are
\* truthy and amount is not a number is answered 500, with no sendMail call.
C3_PaypalValidation ==
    \A i \in OfRoute("paypal") :
        LET in == reqs[i].input
            falsy == ~Truthy(in.orderID) \/ ~Truthy(in.payerID) \/ ~TruthyVal(in.amount)
        IN  /\ falsy =>
                /\ reqs[i].resp = [status |-> 400,
                                   body |-> [success |-> FALSE,
                                             error |-> "Missing required payment information"]]
                /\ Len(reqs[i].sendMailCalls) = 0
                /\ reqs[i].notifier = "notcalled"
            /\ (~falsy /\ in.amount.t = "num" /\ reqs[i].pc = "done") =>
                /\ reqs[i].resp.status = 200
                /\ reqs[i].resp.body.success
                /\ reqs[i].resp.body.payment.status = "COMPLETED"
                /\ reqs[i].resp.body.payment.id = in.orderID
            /\ (~falsy /\ in.amount.t # "num") =>
                /\ reqs[i].resp.status = 500
                /\ Len(reqs[i].sendMailCalls) = 0

C3_Witness ==
    /\ \E i \in OfRoute("paypal") :
          /\ reqs[i].input.orderID = "O1"
          /\ reqs[i].input.payerID = Undefined
          /\ reqs[i].input.amount = Num(1999)
          /\ reqs[i].resp.status = 400
    /\ \E j \in OfRoute("paypal") :
          /\ reqs[j].resp.status = 200
          /\ reqs[j].resp.body.payment.id = "O1"
          /\ reqs[j].resp.body.payment.amount.value = "19.99"

\* C4: a create-payment-intent request whose amount is missing or below 50
\* is answered 400 "Invalid amount" and Stripe is never called; with an
\* amount of at least 50 and a created intent the response carries the
\* intent's client_secret and id; a Stripe error is answered 500 with the
\* error's message and type.
C4_CreatePaymentIntent ==
    \A i \in OfRoute("create") :
        LET a == reqs[i].input.amount IN
        /\ (a.t = "undefined" \/ LessThan(a, 50)) =>
              /\ reqs[i].pc = "done"
              /\ reqs[i].resp.status = 400
              /\ reqs[i].resp.body.error = "Invalid amount"
              /\ reqs[i].stripeCalls = 0
        /\ (a.t = "num" /\ a.n >= 50 * 100 /\ reqs[i].stripe.kind = "intent") =>
              /\ reqs[i].resp.status = 200
              /\ reqs[i].resp.body.client_secret = reqs[i].stripe.intent.client_secret
              /\ reqs[i].resp.body.payment_intent_id = reqs[i].stripe.intent.id
        /\ reqs[i].stripe.kind = "error" =>
              /\ reqs[i].resp.status = 500
              /\ Truthy(reqs[i].stripe.message)
                 => reqs[i].resp.body.error = reqs[i].stripe.message
              /\ Truthy(reqs[i].stripe.type)
                 => reqs[i].resp.body.code = reqs[i].stripe.type

C4_Witness ==
    /\ \E i \in OfRoute("create") :
          /\ reqs[i].input.amount = Num(4950)
          /\ reqs[i].resp.status = 400
          /\ reqs[i].stripeCalls = 0
    /\ \E j \in OfRoute("create") :
          /\ reqs[j].input.amount = Num(5000)
          /\ reqs[j].stripeCalls = 1
          /\ reqs[j].resp.status = 200
          /\ reqs[j].resp.body.payment_intent_id = "pi_1"

\* C5: a confirm-payment request whose retrieved intent is not "succeeded"
\* is answered 200 with success false and the intent's status, and makes no
\* sendMail call; the notifier is called only for a retrieved status
\* "succeeded".
C5_NotSucceededNoEmail ==
    \A i \in OfRoute("confirm") :
        /\ (reqs[i].stripe.kind = "intent" /\ reqs[i].stripe.intent.status # "succeeded") =>
              /\ reqs[i].pc = "done"
              /\ reqs[i].resp.status = 200
              /\ reqs[i].resp.body.success = FALSE
              /\ reqs[i].resp.body.status = reqs[i].stripe.intent.status
              /\ Len(reqs[i].sendMailCalls) = 0
              /\ reqs[i].notifier = "notcalled"
        /\ reqs[i].notifier # "notcalled" =>
              /\ reqs[i].stripe.kind = "intent"
              /\ reqs[i].stripe.intent.status = "succeeded"

C5_Witness ==
    /\ emailTransporter
    /\ \E i \in OfRoute("confirm") :
          /\ reqs[i].stripe.kind = "intent"
          /\ reqs[i].stripe.intent.status = "processing"
          /\ reqs[i].stripe.intent.receipt_email = "a@b.com"
          /\ reqs[i].resp.body.status = "processing"
    /\ \E j \in OfRoute("confirm") :
          /\ reqs[j].notifier = "returned"
          /\ Len(reqs[j].sendMailCalls) = 2

\* C7: in the webhook, confirm-payment and PayPal handlers the response does
\* not depend on how the sends ended: two answered requests with the same
\* input (and the same retrieved intent) have the same response, and a
\* request with a failed send is answered 200.
C7_EmailFailureNeverSurfaces ==
    /\ \A i \in DOMAIN reqs, j \in DOMAIN reqs :
          (/\ reqs[i].route = reqs[j].route
           /\ reqs[i].input = reqs[j].input
           /\ reqs[i].stripe = reqs[j].stripe
           /\ reqs[i].pc = "done" /\ reqs[j].pc = "done")
          => reqs[i].resp = reqs[j].resp
    /\ \A i \in DOMAIN reqs :
          (reqs[i].pc = "done" /\ "failed" \in {reqs[i].business, reqs[i].customer})
          => reqs[i].resp.status = 200

C7_Witness ==
    \E i \in DOMAIN reqs, j \in DOMAIN reqs :
        /\ reqs[i].route = reqs[j].route
        /\ reqs[i].input = reqs[j].input
        /\ reqs[i].stripe = reqs[j].stripe
        /\ reqs[i].pc = "done" /\ reqs[j].pc = "done"
        /\ reqs[i].business = "failed" /\ reqs[i].customer = "failed"
        /\ reqs[j].business = "ok" /\ reqs[j].customer = "ok"

\* C9, as stated: an OPTIONS request is accepted whatever its path and
\* origin; any other request passes the CORS middleware exactly when its
\* origin is absent or on the allow-list, and goes to the error path
\* otherwise.
C9_PreflightUnconditional ==
    \A i \in OfRoute("pipeline") :
        IF reqs[i].input.method = "OPTIONS"
        THEN reqs[i].cors = "preflight" /\ reqs[i].resp.status = 204
        ELSE IF reqs[i].input.origin = Undefined
                \/ reqs[i].input.origin \in allowedOrigins
             THEN reqs[i].cors = "next"
             ELSE reqs[i].cors = "error" /\ reqs[i].resp.status = 500

\* C10, as stated: both sends are attempted, and a handler that called the
\* notifier answers only after both sends have finished.
C10_AnswerAfterBothFinished ==
    \A i \in DOMAIN reqs :
        /\ (reqs[i].business = "idle") = (reqs[i].customer = "idle")
        /\ (Answered(reqs[i]) /\ Len(reqs[i].sendMailCalls) > 0)
           => (Finished(reqs[i].business) /\ Finished(reqs[i].customer))

\* C10, amended: both sends are started together, so a failed send never
\* keeps the other from being attempted; a handler that called the notifier
\* answers only once both sends have succeeded or one of them has failed
\* (Promise.all rejects on the first failure, and the other send may then
\* still be in flight).
C10_AnswerAfterPromiseAll ==
    \A i \in DOMAIN reqs :
        /\ (reqs[i].business = "idle") = (reqs[i].customer = "idle")
        /\ Len(reqs[i].sendMailCalls) = (IF reqs[i].business = "idle" THEN 0 ELSE 2)
        /\ (Answered(reqs[i]) /\ Len(reqs[i].sendMailCalls) > 0)
           => \/ reqs[i].business = "ok" /\ reqs[i].customer = "ok"
              \/ "failed" \in {reqs[i].business, reqs[i].customer}

C10_Witness ==
    /\ \E i \in DOMAIN reqs :
          /\ Answered(reqs[i])
          /\ reqs[i].business = "failed" /\ reqs[i].customer = "pending"
    /\ \E j \in DOMAIN reqs :
          /\ Answered(reqs[j])
          /\ reqs[j].business = "ok" /\ reqs[j].customer = "ok"

====
